---- MODULE Spec2Model ----
(***************************************************************************)
(* Columnar block -> Spark UnsafeRow serializer                            *)
(* (cpp-ch/local-engine/Parser/CHColumnToSparkRow.cpp).                    *)
(*                                                                         *)
(* Bytes are naturals 0..255.  A 64-bit integer that is stored into the    *)
(* row buffer is an 8-byte little-endian sequence, so that shifts, masks   *)
(* and ors act on the stored representation.  Row vectors (offsets,        *)
(* lengths, buffer_cursor) and the buffer are functions over 0..n-1, as    *)
(* the source indexes them.                                                *)
(***************************************************************************)
EXTENDS Integers, Sequences, FiniteSets, TLC

VARIABLES block, masks, pc, info, buffer, allocated, overrun, col_idx, error, returned,
          claimed, stored, next_col,
          u_type, u_field, u_parent, u_row, u_offsets, u_len, u_before, u_after, u_pc,
          f_arg, f_val, f_back, f_pc

convVars == <<block, masks, pc, info, buffer, allocated, overrun, col_idx, error, returned,
              claimed, stored, next_col>>
unitVars == <<u_type, u_field, u_parent, u_row, u_offsets, u_len, u_before, u_after, u_pc>>
pureVars == <<f_arg, f_val, f_back, f_pc>>
vars == <<block, masks, pc, info, buffer, allocated, overrun, col_idx, error, returned,
          claimed, stored, next_col,
          u_type, u_field, u_parent, u_row, u_offsets, u_len, u_before, u_after, u_pc,
          f_arg, f_val, f_back, f_pc>>

----------------------------------------------------------------------------
(* Bounds of the model *)

\* largest number of columns of a block
MaxCols == 2
\* largest length of a row-selection mask
MaxMaskLen == 2
\* largest number of bytes handed to roundNumberOfBytesToNearestWord on its own
MaxBytes == 64

----------------------------------------------------------------------------
(* Bytes and 64-bit words *)

RECURSIVE BitOr(_, _, _)
\* bitwise or of the low n bits of two naturals
BitOr(a, b, n) ==
    IF n = 0 THEN 0
    ELSE (IF (a % 2 = 1) \/ (b % 2 = 1) THEN 1 ELSE 0) + 2 * BitOr(a \div 2, b \div 2, n - 1)

ByteOr(a, b) == BitOr(a, b, 8)

\* byte k (0 = least significant) of the two's-complement representation of n
ByteOf(n, k) ==
    IF k < 4 THEN (n \div (256 ^ k)) % 256
    ELSE IF n < 0 THEN 255 ELSE 0

\* the w low bytes of n, little-endian
LEBytes(n, w) == [k \in 1..w |-> ByteOf(n, k - 1)]

\* int64_t as stored by memcpy(&x, 8)
I64(n) == LEBytes(n, 8)

\* the value of a non-negative 64-bit word that fits the model's integers
ToInt(w) == w[1] + 256 * w[2] + 65536 * w[3] + 16777216 * w[4]

\* memcpy(buf + at, src, Len(src)); a byte outside the buffer is not stored
Memcpy(buf, at, src) ==
    [p \in DOMAIN buf |->
        IF p >= at /\ p < at + Len(src) THEN src[p - at + 1] ELSE buf[p]]

\* does memcpy(buf + at, src, n) stay inside the buffer
InBuffer(buf, at, n) == n = 0 \/ (at \in DOMAIN buf /\ (at + n - 1) \in DOMAIN buf)

calculateBitSetWidthInBytes(num_fields) == ((num_fields + 63) \div 64) * 8

calculatedFixeSizePerRow(num_cols) == calculateBitSetWidthInBytes(num_cols) + num_cols * 8

\* roundNumberOfBytesToNearestWord without the & 0x7 on the amount added
roundNumberOfBytesToNearestWord_unmasked(num_bytes) ==
    LET remainder == num_bytes % 8
    IN  num_bytes + (8 - remainder)

roundNumberOfBytesToNearestWord(num_bytes) ==
    LET remainder == num_bytes % 8
    IN  num_bytes + ((8 - remainder) % 8)

\* bitSet(bitmap, index): read the 64-bit word, or the mask in, store the word
bitSet(buf, bitmap, index) ==
    LET word_offset == (index \div 64) * 8
        mask == [k \in 1..8 |-> IF k - 1 = (index % 64) \div 8 THEN 2 ^ (index % 8) ELSE 0]
        word == [k \in 1..8 |-> IF (bitmap + word_offset + k - 1) \in DOMAIN buf
                                THEN buf[bitmap + word_offset + k - 1] ELSE 0]
        value == [k \in 1..8 |-> ByteOr(word[k], mask[k])]
    IN  Memcpy(buf, bitmap + word_offset, value)

isBitSet(buf, bitmap, index) ==
    LET word_offset == (index \div 64) * 8
        byte == buf[bitmap + word_offset + ((index % 64) \div 8)]
    IN  (byte \div (2 ^ (index % 8))) % 2 = 1

----------------------------------------------------------------------------
(* Descriptors *)

\* x << 32 on a 64-bit word
Shl32(w) == [k \in 1..8 |-> IF k <= 4 THEN 0 ELSE w[k - 4]]

\* (cursor << 32) | size, both int64_t
getOffsetAndSize(cursor, size) ==
    LET hi == Shl32(cursor)
    IN  [k \in 1..8 |-> ByteOr(hi[k], size[k])]

\* offset_and_size >> 32 (arithmetic)
extractOffset(offset_and_size) ==
    [k \in 1..8 |-> IF k <= 4 THEN offset_and_size[k + 4]
                    ELSE IF offset_and_size[8] >= 128 THEN 255 ELSE 0]

\* offset_and_size & 0xffffffff
extractSize(offset_and_size) ==
    [k \in 1..8 |-> IF k <= 4 THEN offset_and_size[k] ELSE 0]

----------------------------------------------------------------------------
(* Types and values *)

\* a data type: its kind, its nested types, and whether Nullable wraps it
Type(kind, args, nullable) == [kind |-> kind, args |-> args, nullable |-> nullable]

Scalar(kind) == Type(kind, <<>>, FALSE)

Nullable(t) == [t EXCEPT !.nullable = TRUE]

ArrayOf(t) == Type("Array", <<t>>, FALSE)

MapOf(k, v) == Type("Map", <<k, v>>, FALSE)

TupleOf(ts) == Type("Tuple", ts, FALSE)

removeNullable(t) == [t EXCEPT !.nullable = FALSE]

\* a Field: Null, a number (n), a string or decimal128 (bytes), or a
\* container of Fields (elems); a Map holds two-element Tuples
Field(tag, n, bytes, elems) == [tag |-> tag, n |-> n, bytes |-> bytes, elems |-> elems]

Null == Field("Null", 0, <<>>, <<>>)

Num(n) == Field("Num", n, <<>>, <<>>)

Str(bytes) == Field("Str", 0, bytes, <<>>)

\* a Decimal128 value, as its 16 native (little-endian) bytes
Dec128(bytes) == Field("Dec128", 0, bytes, <<>>)

Arr(elems) == Field("Arr", 0, <<>>, elems)

Tup(elems) == Field("Tup", 0, <<>>, elems)

MapVal(pairs) == Field("Map", 0, <<>>, pairs)

isFixedLengthDataType(type_without_nullable) ==
    type_without_nullable.kind \in
        {"UInt8", "Int8", "UInt16", "Int16", "Date", "UInt32", "Int32", "Float32", "Date32",
         "Decimal32", "UInt64", "Int64", "Float64", "DateTime64", "Decimal64", "Nothing"}

isVariableLengthDataType(type_without_nullable) ==
    type_without_nullable.kind \in {"String", "FixedString", "Decimal128", "Array", "Map", "Tuple"}

isDataTypeSupportRawData(type_without_nullable) ==
    \/ isFixedLengthDataType(type_without_nullable)
    \/ type_without_nullable.kind \in {"String", "FixedString", "Decimal128"}

isBigEndianInSparkRow(type_without_nullable) == type_without_nullable.kind = "Decimal128"

getArrayElementSize(nested_type) ==
    LET nested_which == removeNullable(nested_type).kind
    IN  IF nested_which \in {"UInt8", "Int8"} THEN 1
        ELSE IF nested_which \in {"UInt16", "Int16", "Date"} THEN 2
        ELSE IF nested_which \in {"UInt32", "Int32", "Float32", "Date32"} THEN 4
        ELSE IF nested_which \in {"UInt64", "Int64", "Float64", "DateTime64", "Decimal32", "Decimal64"}
             THEN 8
        ELSE 8

\* getSizeOfValueInMemory of a fixed-length type: the size getDataAt reports
SizeOfValueInMemory(type_without_nullable) ==
    LET k == type_without_nullable.kind
    IN  IF k \in {"UInt8", "Int8"} THEN 1
        ELSE IF k \in {"UInt16", "Int16", "Date"} THEN 2
        ELSE IF k \in {"UInt32", "Int32", "Float32", "Date32", "Decimal32"} THEN 4
        ELSE IF k = "Nothing" THEN 0
        ELSE 8

\* swapDecimalEndianBytes without the swap of the two items
swapDecimalEndianBytes_itemsInPlace(buf) ==
    [k \in 1..16 |-> IF k <= 8 THEN buf[9 - k] ELSE buf[25 - k]]

\* swapDecimalEndianBytes: bswap64 of each 64-bit item, then swap the items
swapDecimalEndianBytes(buf) ==
    LET swapped == [k \in 1..16 |-> IF k <= 8 THEN buf[9 - k] ELSE buf[25 - k]]
    IN  [k \in 1..16 |-> IF k <= 8 THEN swapped[k + 8] ELSE swapped[k - 8]]

----------------------------------------------------------------------------
(* BackingDataLengthCalculator *)

\* a constructor that accepts every type
BackingDataLengthCalculator_lenient(type_) ==
    [throws |-> FALSE, type_without_nullable |-> removeNullable(type_)]

\* the constructor throws UNKNOWN_TYPE for a type that is neither class
BackingDataLengthCalculator(type_) ==
    LET type_without_nullable == removeNullable(type_)
    IN  [throws |-> ~isFixedLengthDataType(type_without_nullable)
                    /\ ~isVariableLengthDataType(type_without_nullable),
         type_without_nullable |-> type_without_nullable]

\* the keys (k = 1) or the values (k = 2) of a map, in map order
MapSide(map, k) == Arr([i \in 1..Len(map.elems) |-> map.elems[i].elems[k]])

Threw == [err |-> TRUE, len |-> 0]

RECURSIVE calculate(_, _)
RECURSIVE calculateArrayElems(_, _, _)
RECURSIVE calculateTupleFields(_, _, _)

\* the loop over array[i]: the sum of the elements' backing lengths
calculateArrayElems(nested_type, array, i) ==
    IF i > Len(array.elems) THEN [err |-> FALSE, len |-> 0]
    ELSE LET one == calculate(nested_type, array.elems[i])
             rest == calculateArrayElems(nested_type, array, i + 1)
         IN  IF one.err \/ rest.err THEN Threw
             ELSE [err |-> FALSE, len |-> one.len + rest.len]

\* the loop over the fields of a tuple, a calculator constructed per field
calculateTupleFields(type_fields, tuple, i) ==
    IF i > Len(type_fields) THEN [err |-> FALSE, len |-> 0]
    ELSE IF BackingDataLengthCalculator(type_fields[i]).throws THEN Threw
    ELSE LET one == calculate(type_fields[i], tuple.elems[i])
             rest == calculateTupleFields(type_fields, tuple, i + 1)
         IN  IF one.err \/ rest.err THEN Threw
             ELSE [err |-> FALSE, len |-> one.len + rest.len]

\* calculate(field) of a calculator constructed for type_
calculate(type_, field) ==
    LET type_without_nullable == removeNullable(type_)
        which == type_without_nullable.kind
    IN  IF field.tag = "Null" THEN [err |-> FALSE, len |-> 0]
        ELSE IF which \in {"UInt8", "Int8", "UInt16", "Int16", "UInt32", "Int32", "UInt64", "Int64",
                           "Float32", "Float64", "Date", "Date32", "DateTime64",
                           "Decimal32", "Decimal64"}
             THEN [err |-> FALSE, len |-> 0]
        ELSE IF which \in {"String", "FixedString"}
             THEN [err |-> FALSE, len |-> roundNumberOfBytesToNearestWord(Len(field.bytes))]
        ELSE IF which = "Decimal128" THEN [err |-> FALSE, len |-> 16]
        ELSE IF which = "Array"
             THEN LET num_elems == Len(field.elems)
                      nested_type == type_without_nullable.args[1]
                      res == 8 + calculateBitSetWidthInBytes(num_elems)
                             + roundNumberOfBytesToNearestWord(getArrayElementSize(nested_type) * num_elems)
                  IN  IF BackingDataLengthCalculator(nested_type).throws THEN Threw
                      ELSE LET sum == calculateArrayElems(nested_type, field, 1)
                           IN  IF sum.err THEN Threw ELSE [err |-> FALSE, len |-> res + sum.len]
        ELSE IF which = "Map"
             THEN LET key == calculate(ArrayOf(type_without_nullable.args[1]), MapSide(field, 1))
                  IN  IF key.err THEN Threw
                      ELSE LET val == calculate(ArrayOf(type_without_nullable.args[2]), MapSide(field, 2))
                           IN  IF val.err THEN Threw
                               ELSE [err |-> FALSE, len |-> 8 + key.len + val.len]
        ELSE IF which = "Tuple"
             THEN LET type_fields == type_without_nullable.args
                      num_fields == Len(type_fields)
                      res == calculateBitSetWidthInBytes(num_fields) + 8 * num_fields
                      sum == calculateTupleFields(type_fields, field, 1)
                  IN  IF sum.err THEN Threw ELSE [err |-> FALSE, len |-> res + sum.len]
        ELSE Threw

----------------------------------------------------------------------------
(* FixedLengthDataWriter *)

\* the constructor throws UNKNOWN_TYPE for a type that is not fixed-length
FixedLengthDataWriter(type_) == ~isFixedLengthDataType(removeNullable(type_))

\* write(field, buffer): the bytes stored at buffer, or the throw
FixedLengthDataWriter_write(type_, field) ==
    LET which == removeNullable(type_).kind
    IN  IF field.tag = "Null" THEN [throws |-> FALSE, bytes |-> <<>>]
        ELSE IF which \in {"UInt8", "Int8"} THEN [throws |-> FALSE, bytes |-> LEBytes(field.n, 1)]
        ELSE IF which \in {"UInt16", "Date", "Int16"} THEN [throws |-> FALSE, bytes |-> LEBytes(field.n, 2)]
        ELSE IF which \in {"UInt32", "Date32", "Int32", "Float32"}
             THEN [throws |-> FALSE, bytes |-> LEBytes(field.n, 4)]
        ELSE IF which \in {"UInt64", "Int64", "Float64"} THEN [throws |-> FALSE, bytes |-> LEBytes(field.n, 8)]
        ELSE IF which = "Decimal32" THEN [throws |-> FALSE, bytes |-> LEBytes(field.n, 8)]
        ELSE IF which \in {"Decimal64", "DateTime64"} THEN [throws |-> FALSE, bytes |-> LEBytes(field.n, 8)]
        ELSE [throws |-> TRUE, bytes |-> <<>>]

\* getDataAt returning every value widened to 8 bytes
getDataAt_widened(type_, field) == LEBytes(field.n, 8)

\* getDataAt(row) of a fixed-length column: the value's native bytes
getDataAt(type_, field) == LEBytes(field.n, SizeOfValueInMemory(removeNullable(type_)))

----------------------------------------------------------------------------
(* VariableLengthDataWriter *)

\* the state a writer acts on and what it returns: the buffer, the row
\* cursors, whether it threw, whether a store left the buffer, and the
\* offset_and_size returned. Three history fields record what the writers
\* did: row is the output row being written, stored the set of
\* <<row, position, length>> of every store into the buffer, and claimed
\* the sequence of <<row, from, to>> cursor ranges that the variable-length
\* writes placed their own bytes in
WState(buf, cursor, err, oob, res) ==
    [buf |-> buf, cursor |-> cursor, err |-> err, oob |-> oob, res |-> res,
     row |-> 0, stored |-> {}, claimed |-> <<>>]

\* the constructor throws UNKNOWN_TYPE for a type that is not variable-length
VariableLengthDataWriter(type_) == ~isVariableLengthDataType(removeNullable(type_))

\* a store of src at buf + at
Store(st, at, src) ==
    [st EXCEPT !.buf = Memcpy(st.buf, at, src),
               !.oob = st.oob \/ ~InBuffer(st.buf, at, Len(src)),
               !.stored = @ \cup {<<st.row, at, Len(src)>>}]

\* bitSet on the bitmap at buf + at
StoreBit(st, at, index) ==
    [st EXCEPT !.buf = bitSet(st.buf, at, index),
               !.oob = st.oob \/ ~InBuffer(st.buf, at + (index \div 64) * 8, 8),
               !.stored = @ \cup {<<st.row, at + (index \div 64) * 8, 8>>}]

\* FixedLengthDataWriter::unsafeWrite(str, buffer): memcpy(buffer, str.data, str.size)
unsafeWrite(st, str, at) == Store(st, at, str)

\* buffer_cursor[row_idx] += n
Advance(st, row_idx, n) == [st EXCEPT !.cursor[row_idx] = @ + n]

\* history: a variable-length write of row row_idx places n bytes of its own
\* at cursor position from
Claim(st, row_idx, from, n) == [st EXCEPT !.claimed = Append(@, <<row_idx, from, from + n>>)]

\* writeUnalignedBytes advancing the cursor by the unrounded size
writeUnalignedBytes_unrounded(st, offsets, row_idx, src, parent_offset) ==
    LET size == Len(src)
        copied == Claim(Store(st, offsets[row_idx] + st.cursor[row_idx], src),
                        row_idx, st.cursor[row_idx], size)
        res == getOffsetAndSize(I64(st.cursor[row_idx] - parent_offset), I64(size))
    IN  [Advance(copied, row_idx, size) EXCEPT !.res = res]

\* writeUnalignedBytes that leaves the cursor where it was
writeUnalignedBytes_noAdvance(st, offsets, row_idx, src, parent_offset) ==
    LET size == Len(src)
        copied == Claim(Store(st, offsets[row_idx] + st.cursor[row_idx], src),
                        row_idx, st.cursor[row_idx], roundNumberOfBytesToNearestWord(size))
        res == getOffsetAndSize(I64(st.cursor[row_idx] - parent_offset), I64(size))
    IN  [copied EXCEPT !.res = res]

\* writeUnalignedBytes advancing one cursor shared by all rows
writeUnalignedBytes_sharedCursor(st, offsets, row_idx, src, parent_offset) ==
    LET size == Len(src)
        copied == Claim(Store(st, offsets[row_idx] + st.cursor[row_idx], src),
                        row_idx, st.cursor[row_idx], roundNumberOfBytesToNearestWord(size))
        res == getOffsetAndSize(I64(st.cursor[row_idx] - parent_offset), I64(size))
    IN  [copied EXCEPT !.res = res,
                       !.cursor = [r \in DOMAIN @ |-> @[r] + roundNumberOfBytesToNearestWord(size)]]

writeUnalignedBytes(st, offsets, row_idx, src, parent_offset) ==
    LET size == Len(src)
        copied == Claim(Store(st, offsets[row_idx] + st.cursor[row_idx], src),
                        row_idx, st.cursor[row_idx], roundNumberOfBytesToNearestWord(size))
        res == getOffsetAndSize(I64(st.cursor[row_idx] - parent_offset), I64(size))
    IN  [Advance(copied, row_idx, roundNumberOfBytesToNearestWord(size)) EXCEPT !.res = res]

RECURSIVE write(_, _, _, _, _, _)
RECURSIVE writeArray(_, _, _, _, _, _)
RECURSIVE writeArrayFixedElems(_, _, _, _, _, _)
RECURSIVE writeArrayVariableElems(_, _, _, _, _, _, _, _)
RECURSIVE writeMap(_, _, _, _, _, _)
RECURSIVE writeStruct(_, _, _, _, _, _)
RECURSIVE writeStructFields(_, _, _, _, _, _, _)

\* the loop of writeArray over fixed-length elements; values is the
\* position of the values region in the buffer, bitmap that of the null bitmap
writeArrayFixedElems(st, nested_type, array, bitmap, values, i) ==
    IF i >= Len(array.elems) \/ st.err THEN st
    ELSE LET elem == array.elems[i + 1]
             elem_size == getArrayElementSize(nested_type)
             w == FixedLengthDataWriter_write(nested_type, elem)
             next == IF elem.tag = "Null" THEN StoreBit(st, bitmap, i)
                     ELSE IF w.throws THEN [st EXCEPT !.err = TRUE]
                     ELSE Store(st, values + i * elem_size, w.bytes)
         IN  writeArrayFixedElems(next, nested_type, array, bitmap, values, i + 1)

\* writeArrayVariableElems passing the array's own parent_offset of 0 to its
\* elements, so that their offsets are relative to the row
writeArrayVariableElems_rowRelative(st, offsets, nested_type, row_idx, array, start, len_null_bitmap, i) ==
    IF i >= Len(array.elems) \/ st.err THEN st
    ELSE LET elem == array.elems[i + 1]
             offset == offsets[row_idx]
             elem_size == getArrayElementSize(nested_type)
             w == write(st, offsets, nested_type, row_idx, elem, 0)
             next == IF elem.tag = "Null" THEN StoreBit(st, offset + start + 8, i)
                     ELSE IF w.err THEN w
                     ELSE Store(w, offset + start + 8 + len_null_bitmap + i * elem_size, w.res)
         IN  writeArrayVariableElems(next, offsets, nested_type, row_idx, array, start,
                                     len_null_bitmap, i + 1)

\* the loop of writeArray over variable-length elements
writeArrayVariableElems(st, offsets, nested_type, row_idx, array, start, len_null_bitmap, i) ==
    IF i >= Len(array.elems) \/ st.err THEN st
    ELSE LET elem == array.elems[i + 1]
             offset == offsets[row_idx]
             elem_size == getArrayElementSize(nested_type)
             w == write(st, offsets, nested_type, row_idx, elem, start)
             next == IF elem.tag = "Null" THEN StoreBit(st, offset + start + 8, i)
                     ELSE IF w.err THEN w
                     ELSE Store(w, offset + start + 8 + len_null_bitmap + i * elem_size, w.res)
         IN  writeArrayVariableElems(next, offsets, nested_type, row_idx, array, start,
                                     len_null_bitmap, i + 1)

writeArray(st, offsets, type_, row_idx, array, parent_offset) ==
    LET offset == offsets[row_idx]
        num_elems == Len(array.elems)
        nested_type == removeNullable(type_).args[1]
        start == st.cursor[row_idx]
        counted == Claim(Advance(Store(st, offset + start, I64(num_elems)), row_idx, 8),
                         row_idx, start, 8)
        len_null_bitmap == calculateBitSetWidthInBytes(num_elems)
        elem_size == getArrayElementSize(nested_type)
        len_values == roundNumberOfBytesToNearestWord(elem_size * num_elems)
        skipped == Claim(Advance(counted, row_idx, len_null_bitmap + len_values),
                         row_idx, start + 8, len_null_bitmap + len_values)
        filled ==
            IF isFixedLengthDataType(removeNullable(nested_type))
            THEN writeArrayFixedElems(skipped, nested_type, array, offset + start + 8,
                                      offset + start + 8 + len_null_bitmap, 0)
            ELSE IF VariableLengthDataWriter(nested_type) THEN [skipped EXCEPT !.err = TRUE]
            ELSE writeArrayVariableElems(skipped, offsets, nested_type, row_idx, array, start,
                                         len_null_bitmap, 0)
    IN  IF num_elems = 0
        THEN [counted EXCEPT !.res = getOffsetAndSize(I64(start - parent_offset), I64(8))]
        ELSE IF filled.err THEN filled
        ELSE [filled EXCEPT !.res = getOffsetAndSize(I64(start - parent_offset),
                                                     I64(filled.cursor[row_idx] - start))]

\* writeMap storing the number of pairs where the byte size of the key array
\* belongs
writeMap_pairCount(st, offsets, type_, row_idx, map, parent_offset) ==
    LET offset == offsets[row_idx]
        start == st.cursor[row_idx]
        reserved == Claim(Advance(st, row_idx, 8), row_idx, start, 8)
        key_array == MapSide(map, 1)
        val_array == MapSide(map, 2)
        key_array_type == ArrayOf(removeNullable(type_).args[1])
        val_array_type == ArrayOf(removeNullable(type_).args[2])
        keys == write(reserved, offsets, key_array_type, row_idx, key_array, start + 8)
        key_array_size == extractSize(keys.res)
        patched == Store(keys, offset + start, I64(Len(map.elems)))
        vals == write(patched, offsets, val_array_type, row_idx, val_array,
                      start + 8 + ToInt(key_array_size))
    IN  IF keys.err THEN keys
        ELSE IF vals.err THEN vals
        ELSE [vals EXCEPT !.res = getOffsetAndSize(I64(start - parent_offset),
                                                   I64(vals.cursor[row_idx] - start))]

writeMap(st, offsets, type_, row_idx, map, parent_offset) ==
    LET offset == offsets[row_idx]
        start == st.cursor[row_idx]
        reserved == Claim(Advance(st, row_idx, 8), row_idx, start, 8)
        key_array == MapSide(map, 1)
        val_array == MapSide(map, 2)
        key_array_type == ArrayOf(removeNullable(type_).args[1])
        val_array_type == ArrayOf(removeNullable(type_).args[2])
        keys == write(reserved, offsets, key_array_type, row_idx, key_array, start + 8)
        key_array_size == extractSize(keys.res)
        patched == Store(keys, offset + start, key_array_size)
        vals == write(patched, offsets, val_array_type, row_idx, val_array,
                      start + 8 + ToInt(key_array_size))
    IN  IF keys.err THEN keys
        ELSE IF vals.err THEN vals
        ELSE [vals EXCEPT !.res = getOffsetAndSize(I64(start - parent_offset),
                                                   I64(vals.cursor[row_idx] - start))]

\* writeStructFields placing slot i at start + 8 * i, over the null bitmap
writeStructFields_noBitmap(st, offsets, field_types, row_idx, tuple, start, i) ==
    IF i >= Len(field_types) \/ st.err THEN st
    ELSE LET offset == offsets[row_idx]
             field_value == tuple.elems[i + 1]
             field_type == field_types[i + 1]
             fixed == FixedLengthDataWriter_write(field_type, field_value)
             w == write(st, offsets, field_type, row_idx, field_value, start)
             next ==
                 IF field_value.tag = "Null" THEN StoreBit(st, offset + start, i)
                 ELSE IF isFixedLengthDataType(removeNullable(field_type))
                 THEN IF fixed.throws THEN [st EXCEPT !.err = TRUE]
                      ELSE Store(st, offset + start + i * 8, fixed.bytes)
                 ELSE IF VariableLengthDataWriter(field_type) THEN [st EXCEPT !.err = TRUE]
                 ELSE IF w.err THEN w
                 ELSE Store(w, offset + start + 8 * i, w.res)
         IN  writeStructFields(next, offsets, field_types, row_idx, tuple, start, i + 1)

\* the loop of writeStruct over the fields
writeStructFields(st, offsets, field_types, row_idx, tuple, start, i) ==
    IF i >= Len(field_types) \/ st.err THEN st
    ELSE LET offset == offsets[row_idx]
             field_value == tuple.elems[i + 1]
             field_type == field_types[i + 1]
             len_null_bitmap == calculateBitSetWidthInBytes(Len(field_types))
             fixed == FixedLengthDataWriter_write(field_type, field_value)
             w == write(st, offsets, field_type, row_idx, field_value, start)
             next ==
                 IF field_value.tag = "Null" THEN StoreBit(st, offset + start, i)
                 ELSE IF isFixedLengthDataType(removeNullable(field_type))
                 THEN IF fixed.throws THEN [st EXCEPT !.err = TRUE]
                      ELSE Store(st, offset + start + len_null_bitmap + i * 8, fixed.bytes)
                 ELSE IF VariableLengthDataWriter(field_type) THEN [st EXCEPT !.err = TRUE]
                 ELSE IF w.err THEN w
                 ELSE Store(w, offset + start + len_null_bitmap + 8 * i, w.res)
         IN  writeStructFields(next, offsets, field_types, row_idx, tuple, start, i + 1)

writeStruct(st, offsets, type_, row_idx, tuple, parent_offset) ==
    LET start == st.cursor[row_idx]
        field_types == removeNullable(type_).args
        num_fields == Len(field_types)
        len_null_bitmap == calculateBitSetWidthInBytes(num_fields)
        skipped == Claim(Advance(st, row_idx, len_null_bitmap + num_fields * 8),
                         row_idx, start, len_null_bitmap + num_fields * 8)
        filled == writeStructFields(skipped, offsets, field_types, row_idx, tuple, start, 0)
    IN  IF num_fields = 0
        THEN [st EXCEPT !.res = getOffsetAndSize(I64(start - parent_offset), I64(0))]
        ELSE IF filled.err THEN filled
        ELSE [filled EXCEPT !.res = getOffsetAndSize(I64(start - parent_offset),
                                                     I64(filled.cursor[row_idx] - start))]

\* write(row_idx, field, parent_offset) of a writer constructed for type_
write(st, offsets, type_, row_idx, field, parent_offset) ==
    LET which == removeNullable(type_).kind
    IN  IF field.tag = "Null" THEN [st EXCEPT !.res = I64(0)]
        ELSE IF which \in {"String", "FixedString"}
             THEN writeUnalignedBytes(st, offsets, row_idx, field.bytes, parent_offset)
        ELSE IF which = "Decimal128"
             THEN writeUnalignedBytes(st, offsets, row_idx, swapDecimalEndianBytes(field.bytes),
                                      parent_offset)
        ELSE IF which = "Array" THEN writeArray(st, offsets, type_, row_idx, field, parent_offset)
        ELSE IF which = "Map" THEN writeMap(st, offsets, type_, row_idx, field, parent_offset)
        ELSE IF which = "Tuple" THEN writeStruct(st, offsets, type_, row_idx, field, parent_offset)
        ELSE [st EXCEPT !.err = TRUE]

----------------------------------------------------------------------------
(* Blocks, masks and the per-column writers of Phase 2 *)

\* a column: its type and the Field of every source row
Column(type, values) == [type |-> type, values |-> values]

\* the mask argument: nullptr, or the source-row index of every output row
NoMask == [present |-> FALSE, rows |-> <<>>]

Mask(rows) == [present |-> TRUE, rows |-> rows]

\* RowIdx that reads the output row's own index
RowIdx_unmasked(masks_, i) == i

\* size_t row_idx = masks == nullptr ? i : masks->at(i)
RowIdx(masks_, i) == IF ~masks_.present THEN i ELSE masks_.rows[i + 1]

isColumnNullable(col) == col.type.nullable

\* (*col.column)[row_idx]
FieldAt(col, row_idx) == col.values[row_idx + 1]

\* null_map[row_idx] of a nullable column
NullAt(col, row_idx) == FieldAt(col, row_idx).tag = "Null"

\* getDataAt(row_idx) of a string or decimal128 column
RawDataAt(col, row_idx) == FieldAt(col, row_idx).bytes

\* getFieldOffset(col_idx) of a row set: null_bitset_width_in_bytes + 8L * col_idx
getFieldOffset(null_bitset_width_in_bytes, c) == null_bitset_width_in_bytes + 8 * c

\* one iteration of the row loop of writeFixedLengthNonNullableValue
writeFixedLengthNonNullableValue(st, field_offset, col, offsets, masks_, i) ==
    LET row_idx == RowIdx(masks_, i)
        w == FixedLengthDataWriter_write(col.type, FieldAt(col, row_idx))
    IN  IF removeNullable(col.type).kind = "Decimal32"
        THEN IF w.throws THEN [st EXCEPT !.err = TRUE]
             ELSE Store(st, offsets[i] + field_offset, w.bytes)
        ELSE unsafeWrite(st, getDataAt(col.type, FieldAt(col, row_idx)), offsets[i] + field_offset)

\* writeFixedLengthNullableValue without the null_map test
writeFixedLengthNullableValue_noNullTest(st, field_offset, col, col_index, offsets, masks_, i) ==
    writeFixedLengthNonNullableValue(st, field_offset, col, offsets, masks_, i)

\* one iteration of the row loop of writeFixedLengthNullableValue
writeFixedLengthNullableValue(st, field_offset, col, col_index, offsets, masks_, i) ==
    LET row_idx == RowIdx(masks_, i)
        w == FixedLengthDataWriter_write(col.type, FieldAt(col, row_idx))
    IN  IF NullAt(col, row_idx) THEN StoreBit(st, offsets[i], col_index)
        ELSE IF removeNullable(col.type).kind = "Decimal32"
        THEN IF w.throws THEN [st EXCEPT !.err = TRUE]
             ELSE Store(st, offsets[i] + field_offset, w.bytes)
        ELSE unsafeWrite(st, getDataAt(col.type, FieldAt(col, row_idx)), offsets[i] + field_offset)

\* writeVariableLengthCell with offsets taken relative to the column's slot
writeVariableLengthCell_slotRelative(st, field_offset, col, offsets, row_idx, i) ==
    LET w == IF isDataTypeSupportRawData(removeNullable(col.type))
             THEN writeUnalignedBytes(st, offsets, i, RawDataAt(col, row_idx), field_offset)
             ELSE write(st, offsets, col.type, i, FieldAt(col, row_idx), field_offset)
    IN  IF w.err THEN w ELSE Store(w, offsets[i] + field_offset, w.res)

\* the non-null branch shared by the two variable-length writers: the value
\* goes to the backing data and its offset_and_size into the slot
writeVariableLengthCell(st, field_offset, col, offsets, row_idx, i) ==
    LET type_without_nullable == removeNullable(col.type)
        use_raw_data == isDataTypeSupportRawData(type_without_nullable)
        big_endian == isBigEndianInSparkRow(type_without_nullable)
        w == IF use_raw_data
             THEN IF ~big_endian
                  THEN writeUnalignedBytes(st, offsets, i, RawDataAt(col, row_idx), 0)
                  ELSE writeUnalignedBytes(st, offsets, i,
                                           swapDecimalEndianBytes(RawDataAt(col, row_idx)), 0)
             ELSE write(st, offsets, col.type, i, FieldAt(col, row_idx), 0)
    IN  IF w.err THEN w ELSE Store(w, offsets[i] + field_offset, w.res)

\* one iteration of the row loop of writeVariableLengthNonNullableValue
writeVariableLengthNonNullableValue(st, field_offset, col, offsets, masks_, i) ==
    writeVariableLengthCell(st, field_offset, col, offsets, RowIdx(masks_, i), i)

\* one iteration of the row loop of writeVariableLengthNullableValue
writeVariableLengthNullableValue(st, field_offset, col, col_index, offsets, masks_, i) ==
    LET row_idx == RowIdx(masks_, i)
    IN  IF NullAt(col, row_idx) THEN StoreBit(st, offsets[i], col_index)
        ELSE writeVariableLengthCell(st, field_offset, col, offsets, row_idx, i)

\* what writeValue does for output row i of a column of a supported type
writeValueRow(st, field_offset, col, col_index, offsets, masks_, i) ==
    LET type_without_nullable == removeNullable(col.type)
        is_nullable == isColumnNullable(col)
    IN  IF isFixedLengthDataType(type_without_nullable)
        THEN IF is_nullable
             THEN writeFixedLengthNullableValue(st, field_offset, col, col_index, offsets, masks_, i)
             ELSE writeFixedLengthNonNullableValue(st, field_offset, col, offsets, masks_, i)
        ELSE IF is_nullable
             THEN writeVariableLengthNullableValue(st, field_offset, col, col_index, offsets, masks_, i)
             ELSE writeVariableLengthNonNullableValue(st, field_offset, col, offsets, masks_, i)

RECURSIVE writeValueRows(_, _, _, _, _, _, _, _)
\* the row loop for (i = 0; i < num_rows; i++), left by a throw
writeValueRows(st, field_offset, col, col_index, num_rows, offsets, masks_, i) ==
    IF i >= num_rows \/ st.err THEN st
    ELSE writeValueRows(writeValueRow([st EXCEPT !.row = i], field_offset, col, col_index,
                                      offsets, masks_, i),
                        field_offset, col, col_index, num_rows, offsets, masks_, i + 1)

writeValue(st, field_offset, col, col_index, num_rows, offsets, masks_) ==
    LET type_without_nullable == removeNullable(col.type)
    IN  IF \/ isFixedLengthDataType(type_without_nullable)
           \/ isVariableLengthDataType(type_without_nullable)
        THEN writeValueRows(st, field_offset, col, col_index, num_rows, offsets, masks_, 0)
        ELSE [st EXCEPT !.err = TRUE]

----------------------------------------------------------------------------
(* SparkRowInfo: Phase 1 *)

\* BackingLength with the raw sizes left unrounded
BackingLength_unrounded(col, masks_, i) ==
    LET type_without_nullable == removeNullable(col.type)
        row_idx == RowIdx(masks_, i)
    IN  IF ~isVariableLengthDataType(type_without_nullable) THEN [err |-> FALSE, len |-> 0]
        ELSE IF isDataTypeSupportRawData(type_without_nullable)
        THEN [err |-> FALSE, len |-> Len(RawDataAt(col, row_idx))]
        ELSE calculate(type_without_nullable, FieldAt(col, row_idx))

\* the backing-data length column col adds to output row i, or the throw
BackingLength(col, masks_, i) ==
    LET type_without_nullable == removeNullable(col.type)
        row_idx == RowIdx(masks_, i)
    IN  IF ~isVariableLengthDataType(type_without_nullable) THEN [err |-> FALSE, len |-> 0]
        ELSE IF isDataTypeSupportRawData(type_without_nullable)
        THEN IF isColumnNullable(col)
             THEN IF ~NullAt(col, row_idx)
                  THEN [err |-> FALSE,
                        len |-> roundNumberOfBytesToNearestWord(Len(RawDataAt(col, row_idx)))]
                  ELSE [err |-> FALSE, len |-> 0]
             ELSE [err |-> FALSE, len |-> roundNumberOfBytesToNearestWord(Len(RawDataAt(col, row_idx)))]
        ELSE calculate(type_without_nullable, FieldAt(col, row_idx))

RECURSIVE RowLength(_, _, _, _, _)
\* what the loop for (col_idx = 0; col_idx < num_cols; ++col_idx) adds to
\* lengths[i] from column c on (c counts from 1); the loop reads cols[col_idx]
\* for every col_idx below num_cols, whatever the number of columns passed
RowLength(cols, num_cols, masks_, i, c) ==
    IF c > num_cols THEN [err |-> FALSE, len |-> 0]
    ELSE LET one == BackingLength(cols[c], masks_, i)
             rest == RowLength(cols, num_cols, masks_, i, c + 1)
         IN  IF one.err \/ rest.err THEN Threw
             ELSE [err |-> FALSE, len |-> one.len + rest.len]

RECURSIVE PrefixSum_inclusive(_, _)
\* PrefixSum with offsets[i] taking lengths[i] in
PrefixSum_inclusive(lengths, i) ==
    IF i = 0 THEN 0 ELSE PrefixSum_inclusive(lengths, i - 1) + lengths[i]

RECURSIVE PrefixSum(_, _)
\* offsets[i] = offsets[i - 1] + lengths[i - 1], offsets[0] = 0
PrefixSum(lengths, i) == IF i = 0 THEN 0 ELSE PrefixSum(lengths, i - 1) + lengths[i - 1]

RECURSIVE TotalBytes(_, _)
\* for (i = 0; i < num_rows; ++i) total_bytes += lengths[i]
TotalBytes(lengths, n) == IF n = 0 THEN 0 ELSE TotalBytes(lengths, n - 1) + lengths[n - 1]

\* the SparkRowInfo constructor; row_size is block.rows()
SparkRowInfo(cols, col_size, row_size, masks_) ==
    LET num_rows == IF ~masks_.present THEN row_size ELSE Len(masks_.rows)
        num_cols == col_size
        fixed_size_per_row == calculatedFixeSizePerRow(num_cols)
        backing == [i \in 0..(num_rows - 1) |-> RowLength(cols, num_cols, masks_, i, 1)]
        lengths == [i \in 0..(num_rows - 1) |-> fixed_size_per_row + backing[i].len]
    IN  [throws |-> \E i \in 0..(num_rows - 1) : backing[i].err,
         num_rows |-> num_rows,
         num_cols |-> num_cols,
         null_bitset_width_in_bytes |-> calculateBitSetWidthInBytes(num_cols),
         total_bytes |-> TotalBytes(lengths, num_rows),
         offsets |-> [i \in 0..(num_rows - 1) |-> PrefixSum(lengths, i)],
         lengths |-> lengths,
         buffer_cursor |-> [i \in 0..(num_rows - 1) |-> fixed_size_per_row],
         buffer_address |-> "nullptr"]

----------------------------------------------------------------------------
(* Inputs *)

Hi == <<104, 105>>

LongStr == <<97, 98, 99, 100, 101, 102, 103, 104, 105>>

DecBytes == [k \in 1..16 |-> k]

Int32T == Scalar("Int32")

StringT == Scalar("String")

\* a type outside the classification table
Int128T == Scalar("Int128")

\* the columns blocks are made of, each with its two source rows
ColumnPool ==
    << Column(Int32T, <<Num(7), Num(-2)>>),
       Column(StringT, <<Str(Hi), Str(<<>>)>>),
       Column(Nullable(Int32T), <<Null, Num(42)>>),
       Column(Nullable(StringT), <<Str(LongStr), Null>>),
       Column(Scalar("Decimal32"), <<Num(-2), Num(5)>>),
       Column(ArrayOf(Nullable(Scalar("Int16"))), <<Arr(<<>>), Arr(<<Num(1), Null, Num(-3)>>)>>),
       Column(Nullable(Scalar("Decimal128")), <<Null, Dec128(DecBytes)>>),
       Column(ArrayOf(Nullable(StringT)), <<Arr(<<Str(Hi), Null>>), Arr(<<Str(<<>>)>>)>>),
       Column(MapOf(Scalar("Int8"), Nullable(StringT)),
              <<MapVal(<<>>), MapVal(<<Tup(<<Num(-1), Str(Hi)>>), Tup(<<Num(3), Null>>)>>)>>),
       Column(TupleOf(<<Int32T, Nullable(StringT), TupleOf(<<>>)>>),
              <<Tup(<<Num(9), Str(Hi), Tup(<<>>)>>), Tup(<<Num(-1), Null, Tup(<<>>)>>)>>),
       Column(Nullable(ArrayOf(ArrayOf(Scalar("Decimal128")))),
              <<Null, Arr(<<Arr(<<Dec128(DecBytes)>>), Arr(<<>>)>>)>>),
       Column(Int128T, <<Num(0), Num(1)>>),
       Column(ArrayOf(Int128T), <<Arr(<<>>), Arr(<<>>)>>),
       Column(Nullable(TupleOf(<<Int32T, Int128T>>)), <<Null, Null>>) >>

RECURSIVE Schemas(_, _)
\* the index sequences, increasing, of at most n columns taken from the
\* first k columns of the pool
Schemas(k, n) ==
    IF k = 0 \/ n = 0 THEN {<<>>}
    ELSE Schemas(k - 1, n) \cup {Append(s, k) : s \in Schemas(k - 1, n - 1)}

Blocks == {[c \in 1..Len(s) |-> ColumnPool[s[c]]] : s \in Schemas(Len(ColumnPool), MaxCols)}

\* block.rows()
BlockRows(b) == IF Len(b) = 0 THEN 0 ELSE Len(b[1].values)

\* the source rows of the pool's columns
SourceRows == 0..(Len(ColumnPool[1].values) - 1)

RECURSIVE RowSeqs(_)
RowSeqs(n) ==
    IF n = 0 THEN {<<>>}
    ELSE RowSeqs(n - 1) \cup {Append(m, r) : m \in RowSeqs(n - 1), r \in SourceRows}

Masks == {NoMask} \cup {Mask(m) : m \in RowSeqs(MaxMaskLen)}

----------------------------------------------------------------------------
(* convertCHColumnToSparkRow *)

EmptyVec == [i \in {} |-> 0]

\* no SparkRowInfo object exists
NoInfo ==
    [throws |-> FALSE, num_rows |-> 0, num_cols |-> 0, null_bitset_width_in_bytes |-> 0,
     total_bytes |-> 0, offsets |-> EmptyVec, lengths |-> EmptyVec, buffer_cursor |-> EmptyVec,
     buffer_address |-> "nullptr"]

UnitIdle ==
    /\ u_type = StringT
    /\ u_field = Null
    /\ u_parent = 0
    /\ u_row = 0
    /\ u_offsets = EmptyVec
    /\ u_len = 0
    /\ u_before = WState(EmptyVec, EmptyVec, FALSE, FALSE, I64(0))
    /\ u_after = WState(EmptyVec, EmptyVec, FALSE, FALSE, I64(0))
    /\ u_pc = "idle"

\* no pure function is being applied
PureIdle ==
    /\ f_arg = <<>>
    /\ f_val = <<>>
    /\ f_back = <<>>
    /\ f_pc = "idle"

Init ==
    /\ block \in Blocks
    /\ masks \in Masks
    /\ pc = "start"
    /\ info = NoInfo
    /\ buffer = EmptyVec
    /\ allocated = FALSE
    /\ overrun = FALSE
    /\ col_idx = 0
    /\ error = "none"
    /\ returned = FALSE
    /\ claimed = <<>>
    /\ stored = {}
    /\ next_col = EmptyVec
    /\ UnitIdle
    /\ PureIdle

\* the test for an empty block left out
hasNoColumns_never(b) == FALSE

\* if (!block.columns())
hasNoColumns(b) == Len(b) = 0

\* throw LOGICAL_ERROR "A block with empty columns"
ThrowEmptyColumns ==
    /\ pc = "start"
    /\ hasNoColumns(block)
    /\ pc' = "failed"
    /\ error' = "LOGICAL_ERROR"
    /\ UNCHANGED <<block, masks, info, buffer, allocated, overrun, col_idx, returned, claimed, stored, next_col>>
    /\ UNCHANGED unitVars
    /\ UNCHANGED pureVars

\* std::make_unique<SparkRowInfo>(block, masks)
ConstructSparkRowInfo ==
    /\ pc = "start"
    /\ ~hasNoColumns(block)
    /\ \E made \in {SparkRowInfo(block, Len(block), BlockRows(block), masks)} :
          /\ ~made.throws
          /\ info' = made
    /\ pc' = "constructed"
    /\ UNCHANGED <<block, masks, buffer, allocated, overrun, col_idx, error, returned, claimed, stored, next_col>>
    /\ UNCHANGED unitVars
    /\ UNCHANGED pureVars

\* a calculator of Phase 1 throws UNKNOWN_TYPE: no SparkRowInfo is made
ConstructSparkRowInfoThrows ==
    /\ pc = "start"
    /\ ~hasNoColumns(block)
    /\ SparkRowInfo(block, Len(block), BlockRows(block), masks).throws
    /\ pc' = "failed"
    /\ error' = "UNKNOWN_TYPE"
    /\ UNCHANGED <<block, masks, info, buffer, allocated, overrun, col_idx, returned, claimed, stored, next_col>>
    /\ UNCHANGED unitVars
    /\ UNCHANGED pureVars

\* setBufferAddress(alloc(total_bytes, 64)); memset(buffer, 0, total_bytes)
AllocBuffer ==
    /\ pc = "constructed"
    /\ buffer' = [p \in 0..(info.total_bytes - 1) |-> 0]
    /\ info' = [info EXCEPT !.buffer_address = "buffer"]
    /\ allocated' = TRUE
    /\ col_idx' = 0
    /\ pc' = "writing"
    /\ UNCHANGED <<block, masks, overrun, error, returned, claimed, stored, next_col>>
    /\ UNCHANGED unitVars
    /\ UNCHANGED pureVars

\* the call of writeValue for column col_idx
WrittenColumn ==
    writeValue([WState(buffer, info.buffer_cursor, FALSE, overrun, I64(0))
                   EXCEPT !.stored = stored, !.claimed = claimed],
               getFieldOffset(info.null_bitset_width_in_bytes, col_idx), block[col_idx + 1], col_idx,
               info.num_rows, info.offsets, masks)

\* one iteration of the column loop
WriteColumn ==
    /\ pc = "writing"
    /\ col_idx < info.num_cols
    /\ \E written \in {WrittenColumn} :
          /\ ~written.err
          /\ buffer' = written.buf
          /\ info' = [info EXCEPT !.buffer_cursor = written.cursor]
          /\ overrun' = written.oob
          /\ claimed' = written.claimed
          /\ stored' = written.stored
    /\ col_idx' = col_idx + 1
    /\ UNCHANGED <<block, masks, pc, allocated, error, returned, next_col>>
    /\ UNCHANGED unitVars
    /\ UNCHANGED pureVars

\* writeValue throws UNKNOWN_TYPE: the exception leaves the function, the
\* unique_ptr destroys the SparkRowInfo, and nothing frees the buffer
WriteColumnThrows ==
    /\ pc = "writing"
    /\ col_idx < info.num_cols
    /\ \E written \in {WrittenColumn} :
          /\ written.err
          /\ buffer' = written.buf
          /\ overrun' = written.oob
          /\ claimed' = written.claimed
          /\ stored' = written.stored
    /\ info' = NoInfo
    /\ pc' = "failed"
    /\ error' = "UNKNOWN_TYPE"
    /\ UNCHANGED <<block, masks, allocated, col_idx, returned, next_col>>
    /\ UNCHANGED unitVars
    /\ UNCHANGED pureVars

\* return spark_row_info
Return ==
    /\ pc = "writing"
    /\ col_idx = info.num_cols
    /\ pc' = "done"
    /\ returned' = TRUE
    /\ UNCHANGED <<block, masks, info, buffer, allocated, overrun, col_idx, error, claimed, stored, next_col>>
    /\ UNCHANGED unitVars
    /\ UNCHANGED pureVars

\* the returned row set is in the hands of its owner, the buffer not yet freed:
\* pc is "done" as convertCHColumnToSparkRow returns and "owned" once the owner
\* has called a setter or assigned through getBufferCursor()
InOwnerHands == pc \in {"done", "owned"}

\* what a call on the row set leaves alone
OwnerLeaves ==
    /\ UNCHANGED <<block, masks, buffer, allocated, overrun, col_idx, error, returned, claimed, stored, next_col>>
    /\ UNCHANGED unitVars
    /\ UNCHANGED pureVars

\* the arguments an owner calls the setters with
NumColsArguments == {70}

NumRowsArguments == {5}

NullBitsetWidthArguments == {0}

BufferAddressArguments == {"nullptr"}

BufferCursorArguments == {0}

\* the rows whose cursor an owner assigns
BufferCursorRows == {0}

\* SparkRowInfo::setNumCols(num_cols_), called by the owner
setNumCols ==
    /\ InOwnerHands
    /\ \E num_cols_ \in NumColsArguments : info' = [info EXCEPT !.num_cols = num_cols_]
    /\ pc' = "owned"
    /\ OwnerLeaves

\* SparkRowInfo::setNumRows(num_rows_), called by the owner: offsets, lengths
\* and buffer_cursor keep their entries
setNumRows ==
    /\ InOwnerHands
    /\ \E num_rows_ \in NumRowsArguments : info' = [info EXCEPT !.num_rows = num_rows_]
    /\ pc' = "owned"
    /\ OwnerLeaves

\* SparkRowInfo::setNullBitsetWidthInBytes(null_bitset_width_in_bytes_),
\* called by the owner
setNullBitsetWidthInBytes ==
    /\ InOwnerHands
    /\ \E null_bitset_width_in_bytes_ \in NullBitsetWidthArguments :
          info' = [info EXCEPT !.null_bitset_width_in_bytes = null_bitset_width_in_bytes_]
    /\ pc' = "owned"
    /\ OwnerLeaves

\* SparkRowInfo::setBufferAddress(buffer_address_), called by the owner: the
\* pointer changes, the memory it pointed to does not
setBufferAddress ==
    /\ InOwnerHands
    /\ \E buffer_address_ \in BufferAddressArguments :
          info' = [info EXCEPT !.buffer_address = buffer_address_]
    /\ pc' = "owned"
    /\ OwnerLeaves

\* an assignment through the reference SparkRowInfo::getBufferCursor() returns
getBufferCursor ==
    /\ InOwnerHands
    /\ \E r \in DOMAIN info.buffer_cursor \cap BufferCursorRows : \E cursor \in BufferCursorArguments :
          info' = [info EXCEPT !.buffer_cursor[r] = cursor]
    /\ pc' = "owned"
    /\ OwnerLeaves

\* freeMem(address, size), called by the owner of a returned row set
freeMem ==
    /\ InOwnerHands
    /\ allocated
    /\ allocated' = FALSE
    /\ buffer' = EmptyVec
    /\ pc' = "freed"
    /\ UNCHANGED <<block, masks, info, overrun, col_idx, error, returned, claimed, stored, next_col>>
    /\ UNCHANGED unitVars
    /\ UNCHANGED pureVars

Next ==
    \/ ThrowEmptyColumns
    \/ ConstructSparkRowInfo
    \/ ConstructSparkRowInfoThrows
    \/ AllocBuffer
    \/ WriteColumn
    \/ WriteColumnThrows
    \/ Return
    \/ freeMem
    \/ setNumCols
    \/ setNumRows
    \/ setNullBitsetWidthInBytes
    \/ setBufferAddress
    \/ getBufferCursor

Spec == Init /\ [][Next]_vars

----------------------------------------------------------------------------
(* One calculator and one writer on one value *)

\* the values of the pool's variable-length columns, with their types
PoolValues ==
    {<<ColumnPool[c].type, ColumnPool[c].values[r]>> :
        c \in {k \in 1..Len(ColumnPool) : isVariableLengthDataType(removeNullable(ColumnPool[k].type))},
        r \in 1..Len(ColumnPool[1].values)}

\* the variable-length values a calculator and a writer are applied to:
\* those of the pool whose types are supported at every depth, and more
\* nesting
UnitInputs ==
    {tv \in PoolValues : ~calculate(tv[1], tv[2]).err}
    \cup {<<TupleOf(<<>>), Tup(<<>>)>>,
          <<MapOf(StringT, ArrayOf(Nullable(Int32T))),
            MapVal(<<Tup(<<Str(Hi), Arr(<<Null, Num(5)>>)>>), Tup(<<Str(LongStr), Arr(<<>>)>>)>>)>>,
          <<ArrayOf(TupleOf(<<>>)), Arr(<<Tup(<<>>), Tup(<<>>)>>)>>,
          <<ArrayOf(MapOf(Int32T, StringT)), Arr(<<MapVal(<<>>), MapVal(<<Tup(<<Num(1), Str(Hi)>>)>>)>>)>>,
          <<TupleOf(<<Nullable(ArrayOf(StringT)), Scalar("Decimal128"), Scalar("Int64")>>),
            Tup(<<Arr(<<Str(Hi)>>), Dec128(DecBytes), Num(-1)>>)>>,
          <<ArrayOf(Scalar("Int8")), Arr(<<Num(1), Num(2), Num(3), Num(4), Num(5), Num(6), Num(7), Num(8), Num(9)>>)>>,
          <<ArrayOf(Scalar("Decimal32")), Arr(<<Num(-2), Num(5)>>)>>,
          <<TupleOf(<<Scalar("Decimal32"), Nullable(Scalar("Int16")), Nullable(Int32T)>>),
            Tup(<<Num(-2), Num(-3), Null>>)>>,
          <<ArrayOf(Nullable(Int32T)), Arr(<<Num(-70000), Null, Num(3)>>)>>,
          <<ArrayOf(Nullable(Scalar("Int64"))), Arr(<<Null, Num(-1), Null>>)>>}

ConvIdle ==
    /\ block = <<>>
    /\ masks = NoMask
    /\ pc = "idle"
    /\ info = NoInfo
    /\ buffer = EmptyVec
    /\ allocated = FALSE
    /\ overrun = FALSE
    /\ col_idx = 0
    /\ error = "none"
    /\ returned = FALSE
    /\ claimed = <<>>
    /\ stored = {}
    /\ next_col = EmptyVec

\* a value, the row it is written to, the row's cursor and a parent offset
\* at or before the cursor
UnitInit ==
    /\ ConvIdle
    /\ PureIdle
    /\ \E tv \in UnitInputs : u_type = tv[1] /\ u_field = tv[2]
    /\ u_row \in {0, 1}
    /\ u_parent \in {0, 8}
    /\ \E start \in {8, 24} :
          u_before = WState(EmptyVec, [r \in {0, 1} |-> start], FALSE, FALSE, I64(0))
    /\ u_offsets = EmptyVec
    /\ u_len = 0
    /\ u_after = WState(EmptyVec, EmptyVec, FALSE, FALSE, I64(0))
    /\ u_pc = "ready"

\* BackingDataLengthCalculator(type).calculate(field); two rows of the
\* predicted length are then laid out in a zeroed buffer
UnitCalculate ==
    /\ u_pc = "ready"
    /\ LET size == calculate(u_type, u_field)
           row_length == u_before.cursor[0] + size.len
       IN  /\ ~BackingDataLengthCalculator(u_type).throws
           /\ ~size.err
           /\ u_len' = size.len
           /\ u_offsets' = [r \in {0, 1} |-> r * row_length]
           /\ u_before' = [u_before EXCEPT !.buf = [p \in 0..(2 * row_length - 1) |-> 0]]
    /\ u_pc' = "sized"
    /\ UNCHANGED <<u_type, u_field, u_parent, u_row, u_after>>
    /\ UNCHANGED convVars
    /\ UNCHANGED pureVars

\* VariableLengthDataWriter(type).write(row, field, parent_offset)
UnitWrite ==
    /\ u_pc = "sized"
    /\ ~VariableLengthDataWriter(u_type)
    /\ u_after' = write([u_before EXCEPT !.row = u_row], u_offsets, u_type, u_row, u_field,
                         u_parent)
    /\ u_pc' = "written"
    /\ UNCHANGED <<u_type, u_field, u_parent, u_row, u_offsets, u_len, u_before>>
    /\ UNCHANGED convVars
    /\ UNCHANGED pureVars

UnitNext == UnitCalculate \/ UnitWrite

SpecUnit == UnitInit /\ [][UnitNext]_vars

----------------------------------------------------------------------------
(* Conversions of one fixed-length column *)

\* the fixed-length types of FixedLengthDataWriter::write
FixedKinds ==
    {"UInt8", "Int8", "UInt16", "Int16", "Date", "UInt32", "Int32", "Date32", "Float32",
     "UInt64", "Int64", "Float64", "Decimal32", "Decimal64", "DateTime64"}

\* two source values in the range of each type (floats as bit patterns)
FixedColumnValues(kind) ==
    IF kind = "UInt8" THEN <<Num(0), Num(200)>>
    ELSE IF kind = "Int8" THEN <<Num(-128), Num(5)>>
    ELSE IF kind \in {"UInt16", "Date"} THEN <<Num(1), Num(40000)>>
    ELSE IF kind = "Int16" THEN <<Num(-300), Num(127)>>
    ELSE IF kind \in {"UInt32", "UInt64"} THEN <<Num(70000), Num(1)>>
    ELSE IF kind \in {"Int32", "Date32", "Float32", "Decimal32"} THEN <<Num(-70000), Num(3)>>
    ELSE <<Num(-70000), Num(1073741824)>>

\* blocks of one fixed-length column, nullable or not
FixedBlocks ==
    {<<Column(Scalar(kind), FixedColumnValues(kind))>> : kind \in FixedKinds}
    \cup {<<Column(Nullable(Scalar(kind)), FixedColumnValues(kind))>> : kind \in FixedKinds}
    \cup {<<Column(Nullable(Scalar(kind)), <<Null, FixedColumnValues(kind)[1]>>)>> : kind \in FixedKinds}

FixedInit ==
    /\ block \in FixedBlocks
    /\ masks \in {NoMask, Mask(<<1>>), Mask(<<1, 0>>)}
    /\ pc = "start"
    /\ info = NoInfo
    /\ buffer = EmptyVec
    /\ allocated = FALSE
    /\ overrun = FALSE
    /\ col_idx = 0
    /\ error = "none"
    /\ returned = FALSE
    /\ claimed = <<>>
    /\ stored = {}
    /\ next_col = EmptyVec
    /\ UnitIdle
    /\ PureIdle

FixedNext == ConstructSparkRowInfo \/ AllocBuffer \/ WriteColumn \/ Return

SpecFixed == FixedInit /\ [][FixedNext]_vars

----------------------------------------------------------------------------
(* getOffsetAndSize, extractOffset and extractSize on 64-bit words *)

\* 2^31 and 2^32 as int64_t
Word2p31 == <<0, 0, 0, 128, 0, 0, 0, 0>>

Word2p32 == <<0, 0, 0, 0, 1, 0, 0, 0>>

\* offsets: cursors of small rows, the largest offset below 2^31, and 2^31
OffsetWords == {I64(0), I64(8), I64(24), I64(2147483647), Word2p31}

\* sizes below 2^32, at 2^32 and above it
SizeWords ==
    {I64(0), I64(2), I64(9), Word2p31, <<255, 255, 255, 255, 0, 0, 0, 0>>,
     Word2p32, <<5, 0, 0, 0, 1, 0, 0, 0>>, <<16, 0, 0, 0, 0, 1, 0, 0>>}

PackInit ==
    /\ ConvIdle
    /\ UnitIdle
    /\ f_arg \in [offset : OffsetWords, size : SizeWords]
    /\ f_val = <<>>
    /\ f_back = <<>>
    /\ f_pc = "ready"

\* offset_and_size = getOffsetAndSize(offset, size)
Pack ==
    /\ f_pc = "ready"
    /\ f_val' = getOffsetAndSize(f_arg.offset, f_arg.size)
    /\ f_pc' = "packed"
    /\ UNCHANGED <<f_arg, f_back>>
    /\ UNCHANGED convVars
    /\ UNCHANGED unitVars

\* extractOffset(offset_and_size) and extractSize(offset_and_size)
Unpack ==
    /\ f_pc = "packed"
    /\ f_back' = [offset |-> extractOffset(f_val), size |-> extractSize(f_val)]
    /\ f_pc' = "unpacked"
    /\ UNCHANGED <<f_arg, f_val>>
    /\ UNCHANGED convVars
    /\ UNCHANGED unitVars

PackNext == Pack \/ Unpack

SpecPack == PackInit /\ [][PackNext]_vars

----------------------------------------------------------------------------
(* swapDecimalEndianBytes and the two writers of a decimal128 *)

\* 16-byte native values of a Decimal128
DecimalBuffers ==
    {[k \in 1..16 |-> (a * k + b) % 256] : a \in {1, 7, 16, 37, 100, 255}, b \in {0, 3, 77, 128, 200, 250}}

Decimal128T == Scalar("Decimal128")

\* a zeroed row of one decimal128 column: bitmap, slot and 16 bytes of backing
\* data, the cursor after the slot
DecimalRow == WState([p \in 0..31 |-> 0], [r \in {0} |-> 16], FALSE, FALSE, I64(0))

SwapInit ==
    /\ ConvIdle
    /\ UnitIdle
    /\ f_arg \in DecimalBuffers
    /\ f_val = <<>>
    /\ f_back = <<>>
    /\ f_pc = "ready"

\* swapDecimalEndianBytes(buf)
Swap ==
    /\ f_pc = "ready"
    /\ f_val' = swapDecimalEndianBytes(f_arg)
    /\ f_pc' = "swapped"
    /\ UNCHANGED <<f_arg, f_back>>
    /\ UNCHANGED convVars
    /\ UNCHANGED unitVars

\* swapDecimalEndianBytes applied to its own result
SwapBack ==
    /\ f_pc = "swapped"
    /\ f_back' = swapDecimalEndianBytes(f_val)
    /\ f_pc' = "restored"
    /\ UNCHANGED <<f_arg, f_val>>
    /\ UNCHANGED convVars
    /\ UNCHANGED unitVars

\* the value as row 0 of a top-level decimal128 column, nullable or not,
\* written from the column's raw data
WriteTopLevel ==
    /\ f_pc = "ready"
    /\ \E t \in {Decimal128T, Nullable(Decimal128T)} :
          f_val' = writeValueRow(DecimalRow, getFieldOffset(calculateBitSetWidthInBytes(1), 0), Column(t, <<Dec128(f_arg)>>), 0,
                                 [r \in {0} |-> 0], NoMask, 0)
    /\ f_pc' = "top"
    /\ UNCHANGED <<f_arg, f_back>>
    /\ UNCHANGED convVars
    /\ UNCHANGED unitVars

\* the same value written as a Field by VariableLengthDataWriter::write
WriteNested ==
    /\ f_pc = "top"
    /\ f_back' = write(DecimalRow, [r \in {0} |-> 0], Decimal128T, 0, Dec128(f_arg), 0)
    /\ f_pc' = "both"
    /\ UNCHANGED <<f_arg, f_val>>
    /\ UNCHANGED convVars
    /\ UNCHANGED unitVars

SwapNext == Swap \/ SwapBack \/ WriteTopLevel \/ WriteNested

SpecSwap == SwapInit /\ [][SwapNext]_vars

----------------------------------------------------------------------------
(* Phase 2 in row-major order: one writer per output row *)

\* the columns of the pool that the writers of rows are run on: strings,
\* nullable values, an array, a map and a struct
RowMajorPool == <<2, 3, 4, 8, 9, 10>>

RowMajorBlocks ==
    {[c \in 1..Len(sel) |-> ColumnPool[RowMajorPool[sel[c]]]] :
        sel \in Schemas(Len(RowMajorPool), MaxCols) \ {<<>>}}

RowMajorInit ==
    /\ block \in RowMajorBlocks
    /\ masks \in {NoMask, Mask(<<1, 0>>), Mask(<<1, 1>>)}
    /\ pc = "start"
    /\ info = NoInfo
    /\ buffer = EmptyVec
    /\ allocated = FALSE
    /\ overrun = FALSE
    /\ col_idx = 0
    /\ error = "none"
    /\ returned = FALSE
    /\ claimed = <<>>
    /\ stored = {}
    /\ next_col = EmptyVec
    /\ UnitIdle
    /\ PureIdle

\* the writers of the rows start, each at column 0
StartRowWriters ==
    /\ pc = "writing"
    /\ next_col' = [r \in DOMAIN info.lengths |-> 0]
    /\ pc' = "rows"
    /\ UNCHANGED <<block, masks, info, buffer, allocated, overrun, col_idx, error, returned,
                   claimed, stored>>
    /\ UNCHANGED unitVars
    /\ UNCHANGED pureVars

\* what the writer of row r does for its next column: the body of the row
\* loop of the column's writer
WrittenCell(r) ==
    writeValueRow([WState(buffer, info.buffer_cursor, FALSE, overrun, I64(0))
                      EXCEPT !.stored = stored, !.claimed = claimed, !.row = r],
                  getFieldOffset(info.null_bitset_width_in_bytes, next_col[r]), block[next_col[r] + 1], next_col[r],
                  info.offsets, masks, r)

\* the writer of some row writes the row's next column
WriteCell ==
    /\ pc = "rows"
    /\ \E r \in {i \in DOMAIN next_col : next_col[i] < info.num_cols} :
          \E written \in {WrittenCell(r)} :
              /\ ~written.err
              /\ buffer' = written.buf
              /\ info' = [info EXCEPT !.buffer_cursor = written.cursor]
              /\ overrun' = written.oob
              /\ claimed' = written.claimed
              /\ stored' = written.stored
              /\ next_col' = [next_col EXCEPT ![r] = @ + 1]
    /\ UNCHANGED <<block, masks, pc, allocated, col_idx, error, returned>>
    /\ UNCHANGED unitVars
    /\ UNCHANGED pureVars

\* every writer has written all the columns of its rows
JoinRowWriters ==
    /\ pc = "rows"
    /\ \A r \in DOMAIN next_col : next_col[r] = info.num_cols
    /\ pc' = "done"
    /\ returned' = TRUE
    /\ UNCHANGED <<block, masks, info, buffer, allocated, overrun, col_idx, error, claimed,
                   stored, next_col>>
    /\ UNCHANGED unitVars
    /\ UNCHANGED pureVars

RowMajorNext ==
    \/ ConstructSparkRowInfo
    \/ AllocBuffer
    \/ StartRowWriters
    \/ WriteCell
    \/ JoinRowWriters

SpecRowMajor == RowMajorInit /\ [][RowMajorNext]_vars

----------------------------------------------------------------------------
(* roundNumberOfBytesToNearestWord on its own, beside conversions *)

RoundInit ==
    /\ ConvIdle
    /\ UnitIdle
    /\ f_arg \in 0..MaxBytes
    /\ f_val = <<>>
    /\ f_back = <<>>
    /\ f_pc = "ready"

\* roundNumberOfBytesToNearestWord(num_bytes)
Round ==
    /\ f_pc = "ready"
    /\ f_val' = roundNumberOfBytesToNearestWord(f_arg)
    /\ f_pc' = "rounded"
    /\ UNCHANGED <<f_arg, f_back>>
    /\ UNCHANGED convVars
    /\ UNCHANGED unitVars

AlignedNext == ConstructSparkRowInfo \/ AllocBuffer \/ WriteColumn \/ Return \/ Round

\* either a conversion of a block of supported columns or one rounding
SpecAligned == (RowMajorInit \/ RoundInit) /\ [][AlignedNext]_vars

----------------------------------------------------------------------------
(* Properties *)

\* the output rows of the row set under construction
Rows == DOMAIN info.lengths

\* the column indices of the block
Cols == 0..(Len(block) - 1)

\* the source Field behind output row i of column c
Source(c, i) == FieldAt(block[c + 1], RowIdx(masks, i))

TypeOf(c) == removeNullable(block[c + 1].type)

\* the 8 bytes of the slot of column c in output row i
Slot(c, i) == [k \in 1..8 |-> buffer[info.offsets[i] + getFieldOffset(info.null_bitset_width_in_bytes, c) + k - 1]]

Composite(t) == t.kind \in {"Array", "Map", "Tuple"}

\* C1: when the conversion returns, the cursor of every output row equals
\* the length Phase 1 predicted for it: Phase 2 advanced it from
\* fixed_size_per_row by exactly lengths[r] - fixed_size_per_row.
LengthPrediction ==
    pc = "done" =>
        \A r \in Rows :
            /\ info.buffer_cursor[r] = info.lengths[r]
            /\ info.buffer_cursor[r] - calculatedFixeSizePerRow(info.num_cols)
                 = info.lengths[r] - calculatedFixeSizePerRow(info.num_cols)

\* a masked block with a composite and a raw column was converted, and a
\* row has backing data
LengthPredictionWitness ==
    /\ pc = "done"
    /\ masks.present
    /\ Len(block) = 2
    /\ \E c \in Cols : Composite(TypeOf(c))
    /\ \E c \in Cols : TypeOf(c).kind = "String"
    /\ \E r \in Rows : info.buffer_cursor[r] > calculatedFixeSizePerRow(info.num_cols) + 8

\* C2: for a value of a variable-length type, the length the calculator
\* returns is the amount by which the writer advances the cursor of the row
\* it writes, whatever the parent offset and the cursor it starts from.
CalculatorMatchesWriter ==
    u_pc = "written" =>
        /\ ~u_after.err
        /\ u_after.cursor[u_row] - u_before.cursor[u_row] = u_len

\* a nested value with a null element was written at a non-zero parent offset
CalculatorMatchesWriterWitness ==
    /\ u_pc = "written"
    /\ u_parent > 0
    /\ u_type.kind = "Map"
    /\ \E p \in 1..Len(u_field.elems) : u_field.elems[p].elems[2].tag = "Null"
    /\ u_len > 8

RECURSIVE SumOfLengths(_, _)
SumOfLengths(lengths, n) == IF n = 0 THEN 0 ELSE lengths[n - 1] + SumOfLengths(lengths, n - 1)

\* C3: offsets[0] = 0, offsets[i+1] = offsets[i] + lengths[i], total_bytes
\* is the sum of the lengths, the buffer of Phase 2 has total_bytes bytes,
\* and Phase 2 leaves offsets, lengths and total_bytes as Phase 1 made them.
RowSetLayout ==
    pc \in {"constructed", "writing", "done"} =>
        /\ \A i \in Rows : i = 0 => info.offsets[i] = 0
        /\ \A i \in Rows : (i + 1) \in Rows => info.offsets[i + 1] = info.offsets[i] + info.lengths[i]
        /\ info.total_bytes = SumOfLengths(info.lengths, info.num_rows)
        /\ allocated => DOMAIN buffer = 0..(info.total_bytes - 1)
        /\ LET made == SparkRowInfo(block, Len(block), BlockRows(block), masks)
           IN  /\ info.offsets = made.offsets
               /\ info.lengths = made.lengths
               /\ info.total_bytes = made.total_bytes

\* columns have been written into two rows of different lengths
RowSetLayoutWitness ==
    /\ pc = "writing"
    /\ col_idx = 2
    /\ info.num_rows = 2
    /\ info.lengths[0] # info.lengths[1]
    /\ info.offsets[1] > 0

\* C4: from the allocation on, a null of a nullable column has its bit set
\* and its slot zero once its column is written (clear and zero before), and
\* the bit of a non-null value is clear, whichever columns are written next.
NullBitLocality ==
    pc \in {"writing", "done"} =>
        \A c \in Cols : \A i \in Rows :
            LET null == isColumnNullable(block[c + 1]) /\ Source(c, i).tag = "Null"
            IN  /\ (null /\ c < col_idx) => isBitSet(buffer, info.offsets[i], c)
                /\ null => Slot(c, i) = I64(0)
                /\ (~null \/ c >= col_idx) => ~isBitSet(buffer, info.offsets[i], c)

\* a row holds a null in one column and a value in the other
NullBitLocalityWitness ==
    /\ pc = "done"
    /\ Len(block) = 2
    /\ \E i \in Rows :
          /\ isColumnNullable(block[1]) /\ Source(0, i).tag = "Null"
          /\ Source(1, i).tag # "Null"
          /\ Slot(1, i) # I64(0)
    /\ \E i \in Rows : isColumnNullable(block[2]) /\ Source(1, i).tag = "Null"

\* C5: the descriptor in the slot of a non-null variable-length column
\* points into its own row's backing data: field_offset + 8 <= ofs and
\* ofs + round_up_8(sz) <= lengths[row].
DescriptorWellFormed ==
    pc = "done" =>
        \A c \in Cols : \A i \in Rows :
            (isVariableLengthDataType(TypeOf(c)) /\ Source(c, i).tag # "Null") =>
                LET ofs == ToInt(extractOffset(Slot(c, i)))
                    sz == ToInt(extractSize(Slot(c, i)))
                IN  /\ getFieldOffset(info.null_bitset_width_in_bytes, c) + 8 <= ofs
                    /\ ofs + roundNumberOfBytesToNearestWord(sz) <= info.lengths[i]

\* a row holds two variable-length values, the second behind the first
DescriptorWellFormedWitness ==
    /\ pc = "done"
    /\ Len(block) = 2
    /\ \E i \in Rows :
          /\ \A c \in Cols : isVariableLengthDataType(TypeOf(c)) /\ Source(c, i).tag # "Null"
          /\ ToInt(extractSize(Slot(0, i))) > 0
          /\ ToInt(extractOffset(Slot(1, i))) > ToInt(extractOffset(Slot(0, i)))

\* the block whose row i is row mask[i] of b
Project(b, m) ==
    IF ~m.present THEN b
    ELSE [c \in 1..Len(b) |->
            Column(b[c].type, [i \in 1..Len(m.rows) |-> b[c].values[m.rows[i] + 1]])]

RECURSIVE WrittenThrough(_, _, _, _)
\* Phase 2 on a zeroed buffer, through column c
WrittenThrough(cols, made, m, c) ==
    IF c = 0
    THEN WState([p \in 0..(made.total_bytes - 1) |-> 0], made.buffer_cursor, FALSE, FALSE, I64(0))
    ELSE LET before == WrittenThrough(cols, made, m, c - 1)
         IN  IF before.err THEN before
             ELSE writeValue(before, getFieldOffset(made.null_bitset_width_in_bytes, c - 1), cols[c], c - 1,
                             made.num_rows, made.offsets, m)

\* C6: converting a block with a mask gives length(mask) rows and the
\* offsets, lengths, total_bytes and buffer bytes of converting, with no
\* mask, the block whose row i is the source row mask[i]; and it fails
\* exactly when that conversion fails.
MaskFidelity ==
    (masks.present /\ Len(block) > 0 /\ pc \in {"done", "failed"}) =>
        LET cols == Project(block, masks)
            made == SparkRowInfo(cols, Len(cols), Len(masks.rows), NoMask)
            written == WrittenThrough(cols, made, NoMask, Len(cols))
        IN  IF pc = "failed" THEN made.throws \/ written.err
            ELSE /\ ~made.throws /\ ~written.err
                 /\ info.num_rows = Len(masks.rows)
                 /\ info.offsets = made.offsets
                 /\ info.lengths = made.lengths
                 /\ info.total_bytes = made.total_bytes
                 /\ buffer = written.buf
                 /\ info.buffer_cursor = written.cursor

\* a mask that repeats or reorders source rows selected variable-length data
MaskFidelityWitness ==
    /\ pc = "done"
    /\ masks.present
    /\ masks.rows \in {<<1, 0>>, <<1, 1>>}
    /\ \E c \in Cols : Composite(TypeOf(c))
    /\ info.lengths[0] > calculatedFixeSizePerRow(info.num_cols)

\* C7: a conversion that failed has no buffer left allocated.
FailureFreesBuffer == pc = "failed" => ~allocated

\* neither fixed-length nor variable-length
Unclassified(t) == ~isFixedLengthDataType(removeNullable(t)) /\ ~isVariableLengthDataType(removeNullable(t))

RECURSIVE HasUnclassified(_)
\* the type, or a type nested in it, is outside the classification table
HasUnclassified(t) == Unclassified(t) \/ \E k \in 1..Len(t.args) : HasUnclassified(t.args[k])

\* C9 as stated: a block with an unclassified column type or nested type is
\* never returned as a row set and fails with UNKNOWN_TYPE, whatever its rows.
UnsupportedSchemaAlwaysFails ==
    (pc \in {"done", "failed"} /\ \E c \in Cols : HasUnclassified(block[c + 1].type)) =>
        (~returned /\ error = "UNKNOWN_TYPE")

RECURSIVE ReachesUnclassified(_, _)
\* a non-null array, map or struct, reached through non-null values, has an
\* unclassified element, key, value or field type
ReachesUnclassified(t, v) ==
    /\ v.tag # "Null"
    /\ Composite(removeNullable(t))
    /\ \/ \E k \in 1..Len(t.args) : Unclassified(t.args[k])
       \/ IF t.kind = "Map"
          THEN \E p \in 1..Len(v.elems) : \E k \in 1..2 :
                  ReachesUnclassified(t.args[k], v.elems[p].elems[k])
          ELSE IF t.kind = "Array"
          THEN \E p \in 1..Len(v.elems) : ReachesUnclassified(t.args[1], v.elems[p])
          ELSE \E p \in 1..Len(v.elems) : ReachesUnclassified(t.args[p], v.elems[p])

\* the number of output rows asked for
OutputRows == IF masks.present THEN Len(masks.rows) ELSE BlockRows(block)

\* C9, amended: the conversion fails with UNKNOWN_TYPE and returns no row
\* set whenever a top-level column type is unclassified (for any number of
\* rows), or some output row holds a non-null composite, reached through
\* non-null values, whose element, key, value or field type is unclassified.
UnsupportedTypeFailsWhenReached ==
    (pc \in {"done", "failed"}
     /\ \E c \in Cols :
           \/ Unclassified(block[c + 1].type)
           \/ \E i \in 0..(OutputRows - 1) : ReachesUnclassified(block[c + 1].type, Source(c, i))) =>
        (~returned /\ error = "UNKNOWN_TYPE")

\* Phase 1 met an array whose element type is unclassified
UnsupportedTypeFailsWhenReachedWitness ==
    /\ pc = "failed"
    /\ error = "UNKNOWN_TYPE"
    /\ ~allocated
    /\ OutputRows > 0
    /\ \A c \in Cols : ~Unclassified(block[c + 1].type)
    /\ \E c \in Cols : ReachesUnclassified(block[c + 1].type, Source(c, 0))

\* C10: a block with no columns fails with LOGICAL_ERROR before Phase 1: no
\* SparkRowInfo is made, no buffer is allocated, nothing is written.
EmptySchemaFailsFirst ==
    Len(block) = 0 =>
        /\ pc \in {"idle", "start", "failed"}
        /\ pc = "failed" => error = "LOGICAL_ERROR"
        /\ info = NoInfo
        /\ ~allocated
        /\ buffer = EmptyVec
        /\ ~returned

\* the empty block was rejected although a mask asked for rows
EmptySchemaFailsFirstWitness ==
    /\ Len(block) = 0
    /\ pc = "failed"
    /\ error = "LOGICAL_ERROR"
    /\ masks.present
    /\ Len(masks.rows) = 2

\* the size of the null bitmap and the slots of a row of the row set
FixedSizePerRow == calculatedFixeSizePerRow(info.num_cols)

\* C11: throughout Phase 2 the cursor of every row starts at the fixed size
\* per row and never decreases, across columns and across nested writes; the
\* ranges that distinct variable-length writes of a row place their bytes in
\* are pairwise disjoint and follow one another; every store made for a row
\* lies inside [offsets[row], offsets[row] + lengths[row]).
CursorDiscipline ==
    /\ [](pc \in {"writing", "done"} =>
            /\ col_idx = 0 => \A r \in Rows : info.buffer_cursor[r] = FixedSizePerRow
            /\ \A r \in Rows : info.buffer_cursor[r] >= FixedSizePerRow
            /\ \A k \in 1..Len(claimed) :
                  /\ claimed[k][1] \in Rows
                  /\ FixedSizePerRow <= claimed[k][2]
                  /\ claimed[k][2] <= claimed[k][3]
                  /\ claimed[k][3] <= info.buffer_cursor[claimed[k][1]]
                  /\ \A j \in 1..(k - 1) :
                        claimed[j][1] = claimed[k][1] => claimed[j][3] <= claimed[k][2]
            /\ \A w \in stored :
                  /\ w[1] \in Rows
                  /\ w[3] > 0 =>
                        /\ info.offsets[w[1]] <= w[2]
                        /\ w[2] + w[3] <= info.offsets[w[1]] + info.lengths[w[1]])
    /\ [][pc' = "writing" /\ pc = "writing" =>
            \A r \in Rows : info'.buffer_cursor[r] >= info.buffer_cursor[r]]_vars

\* a finished conversion in which one row received nested and top-level
\* variable-length writes from two columns
CursorDisciplineWitness ==
    /\ pc = "done"
    /\ col_idx = 2
    /\ \E r \in Rows :
          /\ Cardinality({k \in 1..Len(claimed) : claimed[k][1] = r /\ claimed[k][3] > claimed[k][2]}) >= 4
          /\ info.buffer_cursor[r] = info.lengths[r]
          /\ Cardinality({w \in stored : w[1] = r}) >= 6

\* the 8 bytes whose low bytes are those of src and whose other bytes are zero
ZeroPadded(src) == [k \in 1..8 |-> IF k <= Len(src) THEN src[k] ELSE 0]

\* the native little-endian bytes of the value behind row i of column c
NativeBytes(c, i) == LEBytes(Source(c, i).n, SizeOfValueInMemory(TypeOf(c)))

\* C12 as stated: the slot of every non-null value of a fixed-length column
\* holds the value's native little-endian bytes in its low bytes and zero in
\* the remaining bytes, negative values included.
FixedSlotZeroPadded ==
    pc = "done" =>
        \A c \in Cols : \A i \in Rows :
            (isFixedLengthDataType(TypeOf(c)) /\ Source(c, i).tag # "Null")
                => Slot(c, i) = ZeroPadded(NativeBytes(c, i))

\* C12, amended: as stated for every fixed-length type but Decimal32, whose
\* slot holds the value sign-extended to 64 bits, little-endian.
FixedSlotHoldsValue ==
    pc = "done" =>
        \A c \in Cols : \A i \in Rows :
            (isFixedLengthDataType(TypeOf(c)) /\ Source(c, i).tag # "Null")
                => Slot(c, i) = IF TypeOf(c).kind = "Decimal32"
                                THEN LEBytes(Source(c, i).n, 8)
                                ELSE ZeroPadded(NativeBytes(c, i))

\* a negative Decimal32 was written through a mask
FixedSlotHoldsValueWitness ==
    /\ pc = "done"
    /\ masks.present
    /\ \E i \in Rows :
          /\ TypeOf(0).kind = "Decimal32"
          /\ Source(0, i).tag # "Null"
          /\ Source(0, i).n < 0
          /\ Slot(0, i)[8] = 255

\* size & 0xFFFFFFFF of a 64-bit word
Low32(w) == [k \in 1..8 |-> IF k <= 4 THEN w[k] ELSE 0]

\* 0 <= w < 2^31
Below2p31(w) == w[4] < 128 /\ \A k \in 5..8 : w[k] = 0

\* C13: getOffsetAndSize(offset, size) is (offset << 32) | (size & 0xFFFFFFFF)
\* for all 64-bit offsets and sizes: extractSize gives size mod 2^32,
\* extractOffset gives the offset when 0 <= offset < 2^31, and a size of 2^32
\* or more leaves the offset half of the descriptor alone.
DescriptorPacksMaskedSize ==
    /\ f_pc \in {"packed", "unpacked"} =>
          f_val = [k \in 1..8 |-> IF k <= 4 THEN f_arg.size[k] ELSE f_arg.offset[k - 4]]
    /\ f_pc = "unpacked" =>
          /\ f_back.size = Low32(f_arg.size)
          /\ Below2p31(f_arg.offset) => f_back.offset = f_arg.offset

\* where in the buffer the value of the unit write begins
UBase == u_offsets[u_row] + u_before.cursor[u_row]

\* the n bytes at position at after the unit write
UBytes(at, n) == [k \in 1..n |-> u_after.buf[at + k - 1]]

\* a non-null value of the given kind was written
UWritten(kind) ==
    u_pc = "written" /\ removeNullable(u_type).kind = kind /\ u_field.tag # "Null" /\ ~u_after.err

\* the data of a non-null variable-length value of type t begins at position at
BeginsAt(t, v, at) ==
    LET k == removeNullable(t).kind
    IN  IF k \in {"String", "FixedString"} THEN UBytes(at, Len(v.bytes)) = v.bytes
        ELSE IF k = "Decimal128" THEN UBytes(at, 16) = [j \in 1..16 |-> v.bytes[17 - j]]
        ELSE IF k = "Array" THEN UBytes(at, 8) = I64(Len(v.elems))
        ELSE IF k = "Map" THEN UBytes(at + 8, 8) = I64(Len(v.elems))
        ELSE TRUE

\* the descriptors in the 8-byte slots at position slots, one per value of
\* vs, have offsets relative to base: each non-null value's data begins at
\* base + offset, after position floor, inside the bytes written, and not
\* before the end of the data of the values before it
RelativeDescriptors(ts, vs, slots, base, floor) ==
    \A i \in 1..Len(vs) :
        LET d == UBytes(slots + 8 * (i - 1), 8)
            from == base + ToInt(extractOffset(d))
        IN  IF vs[i].tag = "Null" THEN d = I64(0)
            ELSE /\ from >= floor
                 /\ from + ToInt(extractSize(d)) <= u_offsets[u_row] + u_after.cursor[u_row]
                 /\ BeginsAt(ts[i], vs[i], from)
                 /\ \A j \in 1..(i - 1) :
                       LET e == UBytes(slots + 8 * (j - 1), 8)
                       IN  vs[j].tag # "Null" =>
                               base + ToInt(extractOffset(e)) + ToInt(extractSize(e)) <= from

\* C14: writeArray of n elements of type T at cursor start writes n in the 8
\* bytes at start and returns size 8 when n = 0; bit i of the bitmap at
\* start + 8 is set exactly for the null elements; a non-null fixed-length
\* element is stored at start + 8 + bitset_bytes(n) + i * array_element_size(T)
\* by a store of at most array_element_size(T) bytes, and no store goes past
\* the values region; for a variable-length T the i-th 8-byte slot holds a
\* descriptor whose offset is relative to start.
ArrayLayout ==
    UWritten("Array") =>
        LET n == Len(u_field.elems)
            T == removeNullable(u_type).args[1]
            es == getArrayElementSize(T)
            bm == calculateBitSetWidthInBytes(n)
            values == UBase + 8 + bm
            fixed == isFixedLengthDataType(removeNullable(T))
        IN  /\ UBytes(UBase, 8) = I64(n)
            /\ n = 0 => /\ extractSize(u_after.res) = I64(8)
                        /\ u_after.cursor[u_row] = u_before.cursor[u_row] + 8
            /\ extractOffset(u_after.res) = I64(u_before.cursor[u_row] - u_parent)
            /\ \A i \in 0..(bm * 8 - 1) :
                  isBitSet(u_after.buf, UBase + 8, i) <=> (i < n /\ u_field.elems[i + 1].tag = "Null")
            /\ fixed =>
                  /\ \A i \in 0..(n - 1) :
                        UBytes(values + i * es, es) =
                            IF u_field.elems[i + 1].tag = "Null" THEN [k \in 1..es |-> 0]
                            ELSE LEBytes(u_field.elems[i + 1].n, es)
                  /\ \A w \in u_after.stored :
                        \/ w[2] + w[3] <= values
                        \/ \E i \in 0..(n - 1) : w[2] = values + i * es /\ w[3] <= es
                  /\ u_after.cursor[u_row] =
                        u_before.cursor[u_row] + 8 + bm + roundNumberOfBytesToNearestWord(es * n)
            /\ ~fixed =>
                  RelativeDescriptors([i \in 1..n |-> T], u_field.elems, values, UBase,
                                      values + 8 * n)

\* arrays with a null element were written where start differs from the
\* parent offset: one of fixed-length, one of variable-length elements
ArrayLayoutWitness ==
    /\ UWritten("Array")
    /\ u_before.cursor[u_row] = 24
    /\ u_parent = 8
    /\ u_row = 1
    /\ Len(u_field.elems) >= 2
    /\ \E i \in 1..Len(u_field.elems) : u_field.elems[i].tag = "Null"
    /\ \E i \in 1..Len(u_field.elems) : u_field.elems[i].tag = "Str"

\* C15: writeMap at cursor start, for every map including the empty one,
\* stores in the 8 bytes at start the byte size k of the key array; the key
\* array occupies [start + 8, start + 8 + k) and the value array begins at
\* start + 8 + k; the descriptor returned is (start - parent_offset,
\* 8 + k + v), v being the byte size of the value array.
MapLayout ==
    UWritten("Map") =>
        LET key_type == removeNullable(u_type).args[1]
            val_type == removeNullable(u_type).args[2]
            keys == MapSide(u_field, 1)
            vals == MapSide(u_field, 2)
            n == Len(u_field.elems)
            k == calculate(ArrayOf(key_type), keys).len
            v == calculate(ArrayOf(val_type), vals).len
            bm == calculateBitSetWidthInBytes(n)
            val_array == UBase + 8 + k
        IN  /\ UBytes(UBase, 8) = I64(k)
            /\ UBytes(UBase + 8, 8) = I64(n)
            /\ UBytes(val_array, 8) = I64(n)
            /\ \A c \in 1..Len(u_after.claimed) :
                  \/ u_after.claimed[c][3] <= u_before.cursor[u_row] + 8 + k
                  \/ u_after.claimed[c][2] >= u_before.cursor[u_row] + 8 + k
            /\ \A i \in 0..(n - 1) :
                  /\ isBitSet(u_after.buf, UBase + 16, i) <=> keys.elems[i + 1].tag = "Null"
                  /\ isBitSet(u_after.buf, val_array + 8, i) <=> vals.elems[i + 1].tag = "Null"
            /\ (n > 0 /\ ~isFixedLengthDataType(removeNullable(key_type))) =>
                  RelativeDescriptors([i \in 1..n |-> key_type], keys.elems, UBase + 16 + bm,
                                      UBase + 8, UBase + 16 + bm + 8 * n)
            /\ (n > 0 /\ ~isFixedLengthDataType(removeNullable(val_type))) =>
                  RelativeDescriptors([i \in 1..n |-> val_type], vals.elems, val_array + 8 + bm,
                                      val_array, val_array + 8 + bm + 8 * n)
            /\ u_after.res = getOffsetAndSize(I64(u_before.cursor[u_row] - u_parent), I64(8 + k + v))
            /\ extractOffset(u_after.res) = I64(u_before.cursor[u_row] - u_parent)
            /\ extractSize(u_after.res) = I64(8 + k + v)
            /\ u_after.cursor[u_row] = u_before.cursor[u_row] + 8 + k + v

\* an empty map was written at a cursor past its parent offset
MapLayoutEmptyWitness ==
    /\ UWritten("Map")
    /\ Len(u_field.elems) = 0
    /\ u_before.cursor[u_row] = 24
    /\ u_parent = 8
    /\ extractSize(u_after.res) = I64(24)

\* the slot a non-null fixed-length value of type t fills: its native bytes
\* over zeros, a Decimal32 sign-extended to 64 bits
FixedSlot(t, v) ==
    IF removeNullable(t).kind = "Decimal32" THEN LEBytes(v.n, 8)
    ELSE ZeroPadded(LEBytes(v.n, SizeOfValueInMemory(removeNullable(t))))

\* C16: writeStruct of k fields at cursor start reserves bitset_bytes(k) + 8k
\* bytes; a null field has bit i set at start and a zero slot; a
\* fixed-length field has its value in the slot at start + bitset_bytes(k)
\* + 8i; a variable-length field has in slot i a descriptor whose offset is
\* relative to start, start + offset being where the field's data begins.
StructLayout ==
    UWritten("Tuple") =>
        LET ts == removeNullable(u_type).args
            k == Len(ts)
            bm == calculateBitSetWidthInBytes(k)
            slots == UBase + bm
            fixed(i) == isFixedLengthDataType(removeNullable(ts[i]))
        IN  /\ u_after.cursor[u_row] >= u_before.cursor[u_row] + bm + 8 * k
            /\ (\A i \in 1..k : fixed(i) \/ u_field.elems[i].tag = "Null") =>
                  /\ u_after.cursor[u_row] = u_before.cursor[u_row] + bm + 8 * k
                  /\ extractSize(u_after.res) = I64(bm + 8 * k)
            /\ extractOffset(u_after.res) = I64(u_before.cursor[u_row] - u_parent)
            /\ \A i \in 0..(bm * 8 - 1) :
                  isBitSet(u_after.buf, UBase, i) <=> (i < k /\ u_field.elems[i + 1].tag = "Null")
            /\ \A i \in 1..k :
                  (fixed(i) /\ u_field.elems[i].tag # "Null") =>
                      UBytes(slots + 8 * (i - 1), 8) = FixedSlot(ts[i], u_field.elems[i])
            /\ \A i \in 1..k :
                  u_field.elems[i].tag = "Null" => UBytes(slots + 8 * (i - 1), 8) = I64(0)
            /\ \A i \in 1..k :
                  (~fixed(i) /\ u_field.elems[i].tag # "Null") =>
                      LET d == UBytes(slots + 8 * (i - 1), 8)
                          from == UBase + ToInt(extractOffset(d))
                      IN  /\ from >= slots + 8 * k
                          /\ from + ToInt(extractSize(d)) <= u_offsets[u_row] + u_after.cursor[u_row]
                          /\ BeginsAt(ts[i], u_field.elems[i], from)
                          /\ \A j \in 1..(i - 1) :
                                LET e == UBytes(slots + 8 * (j - 1), 8)
                                IN  (~fixed(j) /\ u_field.elems[j].tag # "Null") =>
                                        UBase + ToInt(extractOffset(e)) + ToInt(extractSize(e)) <= from

\* a struct with a fixed-length, a variable-length and an empty-struct field
\* was written at a cursor past its parent offset
StructLayoutWitness ==
    /\ UWritten("Tuple")
    /\ Len(u_field.elems) = 3
    /\ u_field.elems[1].tag = "Num"
    /\ u_field.elems[2].tag = "Str"
    /\ u_field.elems[3].tag = "Tup"
    /\ u_before.cursor[u_row] = 24
    /\ u_parent = 8

\* the 16 bytes of backing data of the decimal row
DecimalBacking(st) == [k \in 1..16 |-> st.buf[15 + k]]

\* C17: swapDecimalEndianBytes maps every 16-byte buffer to its byte
\* reversal, out[i] = in[15 - i]; applied twice it gives the buffer back;
\* the top-level raw-data writer and the nested Field writer store the same
\* 16 bytes for the same value.
DecimalSwapReverses ==
    /\ f_pc \in {"swapped", "restored"} => f_val = [k \in 1..16 |-> f_arg[17 - k]]
    /\ f_pc = "restored" => f_back = f_arg
    /\ f_pc = "both" =>
          /\ ~f_val.err /\ ~f_back.err
          /\ DecimalBacking(f_val) = DecimalBacking(f_back)
          /\ DecimalBacking(f_val) = [k \in 1..16 |-> f_arg[17 - k]]
          /\ f_val.res = f_back.res
          /\ f_val.cursor = f_back.cursor

\* both writers stored a value whose bytes are not a palindrome
DecimalSwapReversesWitness ==
    /\ f_pc = "both"
    /\ f_arg[1] # f_arg[16]
    /\ f_arg[8] # f_arg[9]
    /\ f_val.buf[16] = f_arg[16]
    /\ f_back.buf[31] = f_arg[1]

\* the bytes of output row r in buffer buf
RowBytes(buf, r) == [p \in 0..(info.lengths[r] - 1) |-> buf[info.offsets[r] + p]]

\* Phase 2 of the code, column by column after the same Phase 1, through
\* each number of columns
Sequential ==
    LET made == [info EXCEPT !.buffer_cursor = [r \in Rows |-> FixedSizePerRow]]
    IN  [c \in 0..Len(block) |-> WrittenThrough(block, made, masks, c)]

\* C18: Phase 2 run row-major, by writers that each write the columns of
\* their rows in column order, under every interleaving ends with the buffer
\* and the cursors of the sequential column-by-column Phase 2: a write for
\* row r reads and changes only buffer_cursor[r] and the bytes in
\* [offsets[r], offsets[r] + lengths[r]).
RowMajorEqualsColumnMajor ==
    /\ [](pc \in {"rows", "done"} =>
            LET sequential == Sequential
            IN  /\ \A r \in Rows : \A through \in {sequential[next_col[r]]} :
                      /\ RowBytes(buffer, r) = RowBytes(through.buf, r)
                      /\ info.buffer_cursor[r] = through.cursor[r]
                /\ \A w \in stored :
                      w[3] > 0 => /\ info.offsets[w[1]] <= w[2]
                                  /\ w[2] + w[3] <= info.offsets[w[1]] + info.lengths[w[1]]
                /\ pc = "done" =>
                      \A whole \in {sequential[Len(block)]} :
                          /\ buffer = whole.buf
                          /\ info.buffer_cursor = whole.cursor)
    /\ [][pc = "rows" /\ pc' = "rows" =>
            \A r \in Rows :
                next_col'[r] = next_col[r] =>
                    /\ info'.buffer_cursor[r] = info.buffer_cursor[r]
                    /\ RowBytes(buffer', r) = RowBytes(buffer, r)]_vars

\* the writer of row 1 finished both columns, with variable-length data,
\* before the writer of row 0 wrote anything
RowMajorEqualsColumnMajorWitness ==
    /\ pc = "rows"
    /\ info.num_cols = 2
    /\ DOMAIN next_col = {0, 1}
    /\ next_col[0] = 0
    /\ next_col[1] = 2
    /\ info.buffer_cursor[1] > FixedSizePerRow + 8
    /\ info.lengths[0] > FixedSizePerRow

\* C19: every lengths[row], offsets[row] and total_bytes is a multiple of 8;
\* buffer_cursor[row] is a multiple of 8 before and after every top-level or
\* nested variable-length write; roundNumberOfBytesToNearestWord(x) is the
\* least multiple of 8 that is at least x.
WordAligned ==
    /\ pc \in {"constructed", "writing", "done"} =>
          /\ info.total_bytes % 8 = 0
          /\ \A r \in Rows :
                /\ info.lengths[r] % 8 = 0
                /\ info.offsets[r] % 8 = 0
                /\ info.buffer_cursor[r] % 8 = 0
    /\ \A k \in 1..Len(claimed) : claimed[k][2] % 8 = 0 /\ claimed[k][3] % 8 = 0
    /\ f_pc = "rounded" =>
          /\ f_val % 8 = 0
          /\ f_val >= f_arg
          /\ \A m \in f_arg..(f_val - 1) : m % 8 # 0

\* a conversion ended in which writes of 16 bytes and of more were made, one
\* of them in a row that does not start the buffer
WordAlignedWitness ==
    /\ pc = "done"
    /\ \E k \in 1..Len(claimed) :
          /\ claimed[k][1] = 1
          /\ claimed[k][3] - claimed[k][2] = 16
          /\ info.offsets[1] > 0
    /\ \E k \in 1..Len(claimed) : claimed[k][3] - claimed[k][2] > 16

====
